---------------------------- MODULE Spec2Model ----------------------------
(***************************************************************************)
(* A model of wasm-modules/vector-search/src/lib.rs: the VectorSearch      *)
(* engine (similarity kernels, batch scoring, top-K selection) and the     *)
(* MemoryUtils raw-buffer allocator.                                       *)
(*                                                                         *)
(* Floating point.  An f64/f32 value is modelled as a record               *)
(*     [k |-> "fin", num |-> n, rad |-> r]   the real number n / sqrt(r)   *)
(*     [k |-> "inf", num |-> 1 or -1, ...]   +infinity / -infinity         *)
(*     [k |-> "nan", ...]                    NaN                           *)
(* Finite arithmetic is exact (rounding of the mantissa is abstracted),    *)
(* the IEEE-754 special values behave as in the standard (NaN propagates,  *)
(* inf - inf = 0 * inf = inf / inf = NaN, every comparison with NaN is     *)
(* false) and a finite sum or product whose magnitude exceeds MaxFinite    *)
(* overflows to the infinity of its sign.  Underflow to zero and the sign  *)
(* of zero are not represented.  The usize arithmetic of the program       *)
(* (count * dimensions, i * dimensions) is modelled without wrap-around.   *)
(***************************************************************************)
EXTENDS Integers, Sequences, FiniteSets, Bags

(***************************************************************************)
(* Bounds of the model.                                                    *)
(***************************************************************************)
\* the largest finite float: |x| > MaxFinite overflows to infinity
MaxFinite == 8
\* engine dimensionality and operand lengths of the pairwise f64 operations
MaxDim == 2
MaxLen == 2
\* operand lengths and dimensionality of the single-precision operation
MaxSimdLen == 5
\* dimensionality, row count, flattened length and k of the batch operations
MaxBatchDim == 2
MaxCount == 3
MaxFlat == 4
MaxK == 4
\* the allocator: addresses of the heap, and element counts of a region
MaxRegions == 2
MaxSize == 2
\* f32x4: the number of lanes of one SIMD group
Lanes == 4

VARIABLES
    ctorArg,      \* the argument the constructor was called with
    dimensions,   \* VectorSearch.dimensions
    simdFeature,  \* whether the crate was built with feature "simd"
    op,           \* the exposed operation called last ("new" after construction)
    args,         \* its arguments
    outcome,      \* what the call produced: a value, or a panic
    heap,         \* the allocator's regions: address -> [live, data]
    handles,      \* the bag of [ptr, size] the host was given and has not freed
    memCall,      \* the host's last use of the heap: allocate, free or write
    broken        \* a free has violated the buffer contract (undefined behaviour)

engineVars == <<ctorArg, dimensions, simdFeature, op, args, outcome>>
memVars == <<heap, handles, memCall, broken>>
vars == <<ctorArg, dimensions, simdFeature, op, args, outcome,
          heap, handles, memCall, broken>>

(***************************************************************************)
(* Floating-point values and arithmetic.                                   *)
(***************************************************************************)
Fin(n, r) == [k |-> "fin", num |-> n, rad |-> r]
Int2F(n) == Fin(n, 1)
NaN == [k |-> "nan", num |-> 0, rad |-> 1]
PInf == [k |-> "inf", num |-> 1, rad |-> 1]
NInf == [k |-> "inf", num |-> -1, rad |-> 1]
Zero == Int2F(0)

Sign(n) == IF n > 0 THEN 1 ELSE IF n < 0 THEN -1 ELSE 0
Abs(n) == IF n < 0 THEN -n ELSE n
InfOf(s) == IF s > 0 THEN PInf ELSE NInf

IsNaN(x) == x.k = "nan"
IsInf(x) == x.k = "inf"
IsFin(x) == x.k = "fin"
\* x == 0.0
IsZero(x) == IsFin(x) /\ x.num = 0
\* x > 0.0
IsPositive(x) == x.k # "nan" /\ x.num > 0

\* a finite integer result, overflowing to infinity beyond MaxFinite
Overflow(n) ==
    IF n > MaxFinite THEN PInf ELSE IF n < -MaxFinite THEN NInf ELSE Int2F(n)

\* x + y; finite operands are integers (rad = 1) wherever the program adds
FAdd(x, y) ==
    CASE IsNaN(x) \/ IsNaN(y) -> NaN
      [] IsInf(x) /\ IsInf(y) -> IF x.num = y.num THEN x ELSE NaN
      [] IsInf(x) -> x
      [] IsInf(y) -> y
      [] x.rad = 1 /\ y.rad = 1 -> Overflow(x.num + y.num)

FNeg(x) == IF IsNaN(x) THEN NaN ELSE [x EXCEPT !.num = -x.num]

FSub(x, y) == FAdd(x, FNeg(y))

\* x * y; (n1/sqrt r1) * (n2/sqrt r2) = n1*n2 / sqrt(r1*r2)
FMul(x, y) ==
    CASE IsNaN(x) \/ IsNaN(y) -> NaN
      [] IsInf(x) \/ IsInf(y) ->
            IF x.num = 0 \/ y.num = 0 THEN NaN
            ELSE InfOf(Sign(x.num) * Sign(y.num))
      [] x.rad = 1 /\ y.rad = 1 -> Overflow(x.num * y.num)
      [] OTHER -> Fin(x.num * y.num, x.rad * y.rad)

\* sqrt(x) of an integer-valued x; sqrt(n) = n / sqrt(n) for n > 0
FSqrt(x) ==
    CASE IsNaN(x) -> NaN
      [] IsInf(x) -> IF x.num > 0 THEN PInf ELSE NaN
      [] x.num < 0 -> NaN
      [] x.num = 0 -> Zero
      [] x.rad = 1 -> Fin(x.num, x.num)

\* x / y; a finite non-zero divisor n2/sqrt(r2) must divide n1*r2, which
\* holds for every square root (n2 = r2) and product of square roots:
\* (n1/sqrt r1) / (n2/sqrt r2) = (n1*r2/n2) / sqrt(r1*r2)
FDiv(x, y) ==
    CASE IsNaN(x) \/ IsNaN(y) -> NaN
      [] IsInf(x) /\ IsInf(y) -> NaN
      [] IsInf(x) -> InfOf(x.num * (IF y.num < 0 THEN -1 ELSE 1))
      [] IsInf(y) -> Zero
      [] y.num = 0 -> IF x.num = 0 THEN NaN ELSE InfOf(x.num)
      [] (x.num * y.rad) % Abs(y.num) = 0 ->
            Fin(Sign(y.num) * ((x.num * y.rad) \div Abs(y.num)), x.rad * y.rad)

\* the order of two non-NaN values: n1/sqrt(r1) < n2/sqrt(r2) iff
\* n1*|n1|*r2 < n2*|n2|*r1
FLess(x, y) ==
    CASE IsNaN(x) \/ IsNaN(y) -> FALSE
      [] IsInf(x) /\ IsInf(y) -> x.num < y.num
      [] IsInf(x) -> x.num < 0
      [] IsInf(y) -> y.num > 0
      [] OTHER -> x.num * Abs(x.num) * y.rad < y.num * Abs(y.num) * x.rad

\* f64::partial_cmp: None when either side is NaN
partial_cmp(x, y) ==
    IF IsNaN(x) \/ IsNaN(y) THEN "None"
    ELSE IF FLess(x, y) THEN "Less"
    ELSE IF FLess(y, x) THEN "Greater"
    ELSE "Equal"


(***************************************************************************)
(* Outcomes of a call.  vec is the content of the call's first vector      *)
(* argument when the call ends (only normalizeVector borrows it mutably);  *)
(* div tells whether the call executed a floating-point division.          *)
(***************************************************************************)
Ok(v, vecAfter, divided) ==
    [kind |-> "ok", msg |-> "", val |-> v, vec |-> vecAfter, div |-> divided]
Panic(m, vecAfter) ==
    [kind |-> "panic", msg |-> m, val |-> <<>>, vec |-> vecAfter, div |-> FALSE]
NoCall == [kind |-> "none", msg |-> "", val |-> <<>>, vec |-> <<>>, div |-> FALSE]

Args(v1, v2, c, kk) == [vec1 |-> v1, vec2 |-> v2, count |-> c, k |-> kk]

\* VectorSearch::new
new(d) == [dimensions |-> d]

\* the accumulation loop of the cosine kernels, over indices i..n (1-based)
RECURSIVE cosine_loop(_, _, _, _, _)
cosine_loop(vec1, vec2, i, n, acc) ==
    IF i > n THEN acc
    ELSE cosine_loop(vec1, vec2, i + 1, n,
            [dot_product |-> FAdd(acc.dot_product, FMul(vec1[i], vec2[i])),
             norm1 |-> FAdd(acc.norm1, FMul(vec1[i], vec1[i])),
             norm2 |-> FAdd(acc.norm2, FMul(vec2[i], vec2[i]))])

ZeroAcc == [dot_product |-> Zero, norm1 |-> Zero, norm2 |-> Zero]

\* magnitude = sqrt(norm1) * sqrt(norm2)
magnitude_of(acc) == FMul(FSqrt(acc.norm1), FSqrt(acc.norm2))

\* if magnitude == 0.0 { 0.0 } else { dot_product / magnitude }
cosine_result(acc, vec1) ==
    IF IsZero(magnitude_of(acc)) THEN Ok(Zero, vec1, FALSE)
    ELSE Ok(FDiv(acc.dot_product, magnitude_of(acc)), vec1, TRUE)

\* VectorSearch::cosine_similarity
cosine_similarity(vec1, vec2) ==
    IF Len(vec1) # Len(vec2) \/ Len(vec1) # dimensions
    THEN Panic("Vector dimensions mismatch", vec1)
    ELSE cosine_result(cosine_loop(vec1, vec2, 1, Len(vec1), ZeroAcc), vec1)

\* sum of (vec1[i] - vec2[i])^2 over indices i..n
RECURSIVE euclidean_loop(_, _, _, _, _)
euclidean_loop(vec1, vec2, i, n, sum) ==
    IF i > n THEN sum
    ELSE euclidean_loop(vec1, vec2, i + 1, n,
            FAdd(sum, FMul(FSub(vec1[i], vec2[i]), FSub(vec1[i], vec2[i]))))

\* VectorSearch::euclidean_distance
euclidean_distance(vec1, vec2) ==
    IF Len(vec1) # Len(vec2) \/ Len(vec1) # dimensions
    THEN Panic("Vector dimensions mismatch", vec1)
    ELSE Ok(FSqrt(euclidean_loop(vec1, vec2, 1, Len(vec1), Zero)), vec1, FALSE)

\* sum of vec1[i] * vec2[i] over indices i..n
RECURSIVE dot_loop(_, _, _, _, _)
dot_loop(vec1, vec2, i, n, product) ==
    IF i > n THEN product
    ELSE dot_loop(vec1, vec2, i + 1, n, FAdd(product, FMul(vec1[i], vec2[i])))

\* VectorSearch::dot_product
dot_product(vec1, vec2) ==
    IF Len(vec1) # Len(vec2) \/ Len(vec1) # dimensions
    THEN Panic("Vector dimensions mismatch", vec1)
    ELSE Ok(dot_loop(vec1, vec2, 1, Len(vec1), Zero), vec1, FALSE)

\* sqrt of the sum of val * val over the vector
norm_of(vec) == FSqrt(dot_loop(vec, vec, 1, Len(vec), Zero))

\* a faulty variant: the guard written magnitude != 0.0
normalize_guard_nonzero(magnitude) == ~IsZero(magnitude)

\* the guard of the in-place division: magnitude > 0.0
normalize_guard(magnitude) == IsPositive(magnitude)

\* VectorSearch::normalize_vector
normalize_vector(vec) ==
    IF Len(vec) # dimensions
    THEN Panic("Vector dimension mismatch", vec)
    ELSE IF normalize_guard(norm_of(vec))
         THEN Ok(<<>>, [i \in 1..Len(vec) |-> FDiv(vec[i], norm_of(vec))],
                 Len(vec) > 0)
         ELSE Ok(<<>>, vec, FALSE)

(***************************************************************************)
(* Inputs of the pairwise f64 operations.                                  *)
(***************************************************************************)
InVals == {Int2F(-1), Zero, Int2F(1), Int2F(MaxFinite), PInf, NaN}
VecsOfLen(S, n) == [1..n -> S]
Ones(n) == [i \in 1..n |-> Int2F(1)]
VecsUpTo(S, n) == UNION {VecsOfLen(S, m) : m \in 0..n}

(***************************************************************************)
(* MemoryUtils: the raw-buffer allocator.  The heap is a set of addresses; *)
(* a region is live from the allocation that returns its address to the    *)
(* deallocation that names it.  A Vec of capacity 0 owns no region: its     *)
(* pointer is the dangling address.                                        *)
(***************************************************************************)
Addrs == 1..MaxRegions
Dangling == 0
FreeRegion == [live |-> FALSE, data |-> <<>>]
Zeros(n) == [i \in 1..n |-> Zero]
Handle(p, n) == [ptr |-> p, size |-> n]
MemCall(name, p, n) == [op |-> name, ptr |-> p, size |-> n]
LiveAddrs == {a \in Addrs : heap[a].live}

\* MemoryUtils::allocate_float64_array: vec![0.0f64; size], as_mut_ptr,
\* mem::forget; the allocator places the region at the free address a
allocate_float64_array(size, a) ==
    IF size = 0
    THEN [ptr |-> Dangling, heap |-> heap]
    ELSE [ptr |-> a,
          heap |-> [heap EXCEPT ![a] = [live |-> TRUE, data |-> Zeros(size)]]]

\* whether dropping Vec::from_raw_parts(ptr, size, size) is defined: the
\* Vec owns nothing (capacity 0), or ptr is a live region of that capacity
free_is_defined(ptr, size) ==
    \/ size = 0
    \/ ptr \in LiveAddrs /\ Len(heap[ptr].data) = size

\* a faulty variant: the rebuilt Vec is forgotten instead of dropped
free_float64_array_leak(ptr, size) == heap

\* MemoryUtils::free_float64_array, where it is defined: the drop of the
\* rebuilt Vec deallocates the region at ptr, when the Vec owns one
free_float64_array(ptr, size) ==
    IF size = 0 THEN heap ELSE [heap EXCEPT ![ptr] = FreeRegion]

\* the heaps a free outside the contract may leave: any live region may
\* have been released or not
CorruptHeaps ==
    {h \in [Addrs -> {FreeRegion} \cup {heap[a] : a \in Addrs}] :
        \A a \in Addrs : h[a] = heap[a] \/ h[a] = FreeRegion}

InitMemory ==
    /\ heap = [a \in Addrs |-> FreeRegion]
    /\ handles = EmptyBag
    /\ memCall = MemCall("none", Dangling, 0)
    /\ broken = FALSE

InitEngine(maxDim) ==
    /\ ctorArg \in 0..maxDim
    /\ dimensions = new(ctorArg).dimensions
    /\ op = "new"
    /\ args = Args(<<>>, <<>>, 0, 0)
    /\ outcome = NoCall
    /\ InitMemory

\* a call from the host: the engine is idle (constructed, or the previous
\* call has returned); every call runs to completion before the next
Idle == outcome.kind = "none"

Call(name, a, result) ==
    /\ op' = name
    /\ args' = a
    /\ outcome' = result
    /\ UNCHANGED <<ctorArg, dimensions, simdFeature>>
    /\ UNCHANGED memVars

CosineSimilarity ==
    /\ Idle
    /\ \E v1, v2 \in VecsUpTo(InVals, MaxLen) :
        Call("cosineSimilarity", Args(v1, v2, 0, 0), cosine_similarity(v1, v2))

EuclideanDistance ==
    /\ Idle
    /\ \E v1, v2 \in VecsUpTo(InVals, MaxLen) :
        Call("euclideanDistance", Args(v1, v2, 0, 0), euclidean_distance(v1, v2))

DotProduct ==
    /\ Idle
    /\ \E v1, v2 \in VecsUpTo(InVals, MaxLen) :
        Call("dotProduct", Args(v1, v2, 0, 0), dot_product(v1, v2))

NormalizeVector ==
    /\ Idle
    /\ \E v \in VecsUpTo(InVals, MaxLen) :
        Call("normalizeVector", Args(v, <<>>, 0, 0), normalize_vector(v))

\* the host takes the result of a completed call; a panic is a trap that
\* ends the execution context, so nothing follows it
Return ==
    /\ outcome.kind = "ok"
    /\ op' = "idle"
    /\ args' = Args(<<>>, <<>>, 0, 0)
    /\ outcome' = NoCall
    /\ UNCHANGED <<ctorArg, dimensions, simdFeature>>
    /\ UNCHANGED memVars

InitVec == InitEngine(MaxDim) /\ simdFeature = FALSE
NextVec ==
    CosineSimilarity \/ EuclideanDistance \/ DotProduct \/ NormalizeVector \/ Return
SpecVec == InitVec /\ [][NextVec]_vars


(***************************************************************************)
(* cosineSimilaritySIMD: the lane-parallel build and the scalar fallback.  *)
(***************************************************************************)
\* (a * b).sum() for the group of Lanes components that starts after idx;
\* the horizontal sum adds the lanes in lane order
lane_sum(vec1, vec2, idx) ==
    LET p(j) == FMul(vec1[idx + j], vec2[idx + j])
    IN  FAdd(FAdd(FAdd(p(1), p(2)), p(3)), p(4))

\* for i in 0..chunks: one group of Lanes components per iteration
RECURSIVE simd_loop(_, _, _, _, _)
simd_loop(vec1, vec2, i, chunks, acc) ==
    IF i >= chunks THEN acc
    ELSE simd_loop(vec1, vec2, i + 1, chunks,
            [dot_product |-> FAdd(acc.dot_product, lane_sum(vec1, vec2, i * Lanes)),
             norm1 |-> FAdd(acc.norm1, lane_sum(vec1, vec1, i * Lanes)),
             norm2 |-> FAdd(acc.norm2, lane_sum(vec2, vec2, i * Lanes))])

\* the #[cfg(feature = "simd")] block of cosine_similarity_simd
cosine_similarity_lanes(vec1, vec2) ==
    IF Len(vec1) # Len(vec2) \/ Len(vec1) # dimensions
    THEN Panic("Vector dimensions mismatch", vec1)
    ELSE LET chunks == Len(vec1) \div Lanes
             grouped == simd_loop(vec1, vec2, 0, chunks, ZeroAcc)
         IN  cosine_result(
                 cosine_loop(vec1, vec2, chunks * Lanes + 1, Len(vec1), grouped),
                 vec1)

\* VectorSearch::cosine_similarity_f32: no length check; vec2[i] is bounds
\* checked by the slice index, for i in 0..vec1.len()
cosine_similarity_f32(vec1, vec2) ==
    IF Len(vec2) < Len(vec1)
    THEN Panic("index out of bounds", vec1)
    ELSE cosine_result(cosine_loop(vec1, vec2, 1, Len(vec1), ZeroAcc), vec1)

\* VectorSearch::cosine_similarity_simd
cosine_similarity_simd(vec1, vec2) ==
    IF simdFeature THEN cosine_similarity_lanes(vec1, vec2)
    ELSE cosine_similarity_f32(vec1, vec2)

SimdVals == {Zero, Int2F(1)}

CosineSimilaritySIMD ==
    /\ Idle
    /\ \E v1, v2 \in VecsUpTo(SimdVals, MaxSimdLen) :
        Call("cosineSimilaritySIMD", Args(v1, v2, 0, 0),
             cosine_similarity_simd(v1, v2))

InitSimd == InitEngine(MaxSimdLen) /\ simdFeature \in BOOLEAN
NextSimd == CosineSimilaritySIMD \/ Return
SpecSimd == InitSimd /\ [][NextSimd]_vars

(***************************************************************************)
(* batchCosineSimilarity and findTopK.                                     *)
(***************************************************************************)
\* for i in 0..count: push cosine_similarity(query, &vectors[start..end])
RECURSIVE batch_loop(_, _, _, _, _, _)
batch_loop(query, vectors, i, count, similarities, divided) ==
    IF i >= count THEN Ok(similarities, query, divided)
    ELSE LET start == i * dimensions
             end == start + dimensions
             r == cosine_similarity(query, SubSeq(vectors, start + 1, end))
         IN  IF r.kind = "panic" THEN r
             ELSE batch_loop(query, vectors, i + 1, count,
                             Append(similarities, r.val), divided \/ r.div)

\* a faulty variant: the loop over the rows starts at row 1
batch_cosine_similarity_skip_first(query, vectors, count) ==
    IF Len(query) # dimensions
    THEN Panic("Query vector dimension mismatch", query)
    ELSE IF Len(vectors) # count * dimensions
    THEN Panic("Vectors array size mismatch", query)
    ELSE batch_loop(query, vectors, 1, count, <<>>, FALSE)

\* VectorSearch::batch_cosine_similarity
batch_cosine_similarity(query, vectors, count) ==
    IF Len(query) # dimensions
    THEN Panic("Query vector dimension mismatch", query)
    ELSE IF Len(vectors) # count * dimensions
    THEN Panic("Vectors array size mismatch", query)
    ELSE batch_loop(query, vectors, 0, count, <<>>, FALSE)

\* similarities.into_iter().enumerate().collect(): pairs <<index, score>>,
\* indices counted from 0
enumerate(similarities) ==
    [i \in 1..Len(similarities) |-> <<i - 1, similarities[i]>>]

\* a faulty variant: the comparator with its operands swapped (an ascending sort)
compare_ascending(a, b) == partial_cmp(a[2], b[2])

\* a faulty variant: the comparator with unwrap_or(Equal) in place of unwrap()
compare_nan_equal(a, b) ==
    IF partial_cmp(b[2], a[2]) = "None" THEN "Equal" ELSE partial_cmp(b[2], a[2])

\* the comparator of the sort: |a, b| b.1.partial_cmp(&a.1)
compare(a, b) == partial_cmp(b[2], a[2])

\* one insertion of the insertion sort that slice::sort_by runs on a short
\* slice: x moves left past every v[j] with compare(x, v[j]) == Less; the
\* unwrap() of a None comparison panics
RECURSIVE insert_tail(_, _, _)
insert_tail(v, x, j) ==
    IF j = 0 THEN [panicked |-> FALSE, v |-> <<x>> \o v]
    ELSE IF compare(x, v[j]) = "None" THEN [panicked |-> TRUE, v |-> v]
    ELSE IF compare(x, v[j]) = "Less" THEN insert_tail(v, x, j - 1)
    ELSE [panicked |-> FALSE,
          v |-> SubSeq(v, 1, j) \o <<x>> \o SubSeq(v, j + 1, Len(v))]

\* slice::sort_by: v[1..i-1] is sorted, v[i..] is still to be inserted; a
\* slice of fewer than two elements is returned without any comparison
RECURSIVE sort_by(_, _)
sort_by(v, i) ==
    IF i > Len(v) THEN [panicked |-> FALSE, v |-> v]
    ELSE LET r == insert_tail(SubSeq(v, 1, i - 1), v[i], i - 1)
         IN  IF r.panicked THEN r
             ELSE sort_by(r.v \o SubSeq(v, i + 1, Len(v)), i + 1)

\* a faulty variant: take(k + 1)
take_indices_one_more(sorted, k) ==
    [i \in 1..(IF k + 1 < Len(sorted) THEN k + 1 ELSE Len(sorted)) |-> sorted[i][1]]

\* .into_iter().take(k).map(|(idx, _)| idx).collect()
take_indices(sorted, k) ==
    [i \in 1..(IF k < Len(sorted) THEN k ELSE Len(sorted)) |-> sorted[i][1]]

\* VectorSearch::find_top_k
find_top_k(query, vectors, count, k) ==
    LET similarities == batch_cosine_similarity(query, vectors, count)
    IN  IF similarities.kind = "panic" THEN similarities
        ELSE LET sorted == sort_by(enumerate(similarities.val), 2)
             IN  IF sorted.panicked
                 THEN Panic("called Option::unwrap() on a None value", query)
                 ELSE Ok(take_indices(sorted.v, k), query, similarities.div)

(***************************************************************************)
(* Inputs of the batch operations: every query and set of the valid        *)
(* length over BatchVals, and queries and sets whose length is wrong.      *)
(***************************************************************************)
BatchVals == {Int2F(-1), Zero, Int2F(1), NaN}
Counts == {c \in 0..MaxCount : c * dimensions <= MaxFlat}

Queries ==
    VecsOfLen(BatchVals, dimensions)
        \cup {Ones(n) : n \in (0..(MaxBatchDim + 1)) \ {dimensions}}

Sets(count) ==
    VecsOfLen(BatchVals, count * dimensions)
        \cup {Ones(n) : n \in {count * dimensions + 1, count * dimensions - 1} \cap Nat}

BatchCosineSimilarity ==
    /\ Idle
    /\ \E count \in Counts :
       \E query \in Queries, vectors \in Sets(count) :
          Call("batchCosineSimilarity", Args(query, vectors, count, 0),
               batch_cosine_similarity(query, vectors, count))

FindTopK ==
    /\ Idle
    /\ \E count \in Counts, k \in 0..MaxK :
       \E query \in Queries, vectors \in Sets(count) :
          Call("findTopK", Args(query, vectors, count, k),
               find_top_k(query, vectors, count, k))

InitBatch == InitEngine(MaxBatchDim) /\ simdFeature = FALSE
NextBatch == BatchCosineSimilarity \/ FindTopK \/ Return
SpecBatch == InitBatch /\ [][NextBatch]_vars


(***************************************************************************)
(* The host's use of MemoryUtils.  It may allocate, write into a buffer it *)
(* holds, pass buffers it holds to the engine, and free; nothing checks    *)
(* the pointer or the size it hands to free.                               *)
(***************************************************************************)
AllocateFloat64Array ==
    /\ ~broken
    /\ Idle
    /\ \E size \in 0..MaxSize :
       \E a \in (IF size = 0 THEN {Dangling} ELSE Addrs \ LiveAddrs) :
          /\ size = 0 => CopiesIn(Handle(Dangling, 0), handles) < MaxRegions
          /\ heap' = allocate_float64_array(size, a).heap
          /\ handles' = handles (+)
                SetToBag({Handle(allocate_float64_array(size, a).ptr, size)})
          /\ memCall' = MemCall("allocate", allocate_float64_array(size, a).ptr, size)
    /\ UNCHANGED <<broken, engineVars>>

FreeFloat64Array ==
    /\ ~broken
    /\ Idle
    /\ \E ptr \in Addrs \cup {Dangling}, size \in 0..MaxSize :
          /\ IF free_is_defined(ptr, size)
             THEN heap' = free_float64_array(ptr, size)
             ELSE heap' \in CorruptHeaps
          /\ broken' = ~(free_is_defined(ptr, size) /\ BagIn(Handle(ptr, size), handles))
          /\ handles' = handles (-) SetToBag({Handle(ptr, size)})
          /\ memCall' = MemCall("free", ptr, size)
    /\ UNCHANGED engineVars

\* the host fills a buffer it holds with vector data
HostWrite ==
    /\ ~broken
    /\ Idle
    /\ \E a \in LiveAddrs :
          /\ heap[a].data # Ones(Len(heap[a].data))
          /\ heap' = [heap EXCEPT ![a].data = Ones(Len(heap[a].data))]
          /\ memCall' = MemCall("write", a, Len(heap[a].data))
    /\ UNCHANGED <<handles, broken, engineVars>>

\* the host passes two buffers it holds to dotProduct
DotProductOnBuffers ==
    /\ ~broken
    /\ Idle
    /\ \E a, b \in LiveAddrs :
          Call("dotProduct", Args(heap[a].data, heap[b].data, 0, 0),
               dot_product(heap[a].data, heap[b].data))

InitMem == InitEngine(MaxDim) /\ simdFeature = FALSE
NextMem ==
    \/ AllocateFloat64Array
    \/ FreeFloat64Array
    \/ HostWrite
    \/ DotProductOnBuffers
    \/ Return
SpecMem == InitMem /\ [][NextMem]_vars

(***************************************************************************)
(* The engine as a whole: every exposed vector operation, in either build. *)
(***************************************************************************)
Init == InitEngine(MaxDim) /\ simdFeature \in BOOLEAN
Next ==
    \/ CosineSimilarity
    \/ CosineSimilaritySIMD
    \/ EuclideanDistance
    \/ DotProduct
    \/ NormalizeVector
    \/ BatchCosineSimilarity
    \/ FindTopK
    \/ Return
Spec == Init /\ [][Next]_vars


(***************************************************************************)
(* Properties.                                                             *)
(***************************************************************************)
PairOps == {"cosineSimilarity", "cosineSimilaritySIMD", "euclideanDistance",
            "dotProduct"}
BatchOps == {"batchCosineSimilarity", "findTopK"}
Called == outcome.kind # "none"

\* the length invariant of the data model, for the call made last
LengthsValid ==
    CASE op \in PairOps ->
            Len(args.vec1) = dimensions /\ Len(args.vec2) = dimensions
      [] op = "normalizeVector" -> Len(args.vec1) = dimensions
      [] op \in BatchOps ->
            /\ Len(args.vec1) = dimensions
            /\ Len(args.vec2) = args.count * dimensions
      [] OTHER -> TRUE

\* the call was aborted (whatever the message of the panic)
DimensionMismatch == outcome.kind = "panic"

\* C1: every exposed vector operation called with a length that violates
\* the length invariant fails with DimensionMismatch, produces no value and
\* leaves its argument as it was.
C1_DimensionMismatch ==
    (Called /\ ~LengthsValid) =>
        (DimensionMismatch /\ outcome.vec = args.vec1)

\* the outcome of cosineSimilaritySIMD in the build that is not the running one
OtherBuild ==
    IF simdFeature THEN cosine_similarity_f32(args.vec1, args.vec2)
    ELSE cosine_similarity_lanes(args.vec1, args.vec2)

\* C5: the lane-parallel build and the scalar fallback build of
\* cosineSimilaritySIMD produce the same outcome on the same inputs: the
\* same score, or a failure in both.
C5_DropInEquivalent ==
    op = "cosineSimilaritySIMD" =>
        /\ outcome.kind = OtherBuild.kind
        /\ outcome.kind = "ok" => outcome.val = OtherBuild.val

\* On operands of the declared length the two builds do agree: the groups
\* of Lanes components and the remainder loop cover every index once.
SimdPathsAgreeOnValidLengths ==
    (op = "cosineSimilaritySIMD" /\ LengthsValid) =>
        /\ outcome.kind = "ok"
        /\ OtherBuild.kind = "ok"
        /\ outcome.val = OtherBuild.val

\* C7: the dimensionality of a constructed engine is positive and is the
\* value given to the constructor, in every reachable state.
C7_DimensionPositive == dimensions > 0 /\ dimensions = ctorArg

\* The part of C7 the constructor does guarantee.
DimensionIsCtorArg == dimensions = ctorArg

IsZeroVector(v) == \A i \in 1..Len(v) : IsZero(v[i])
Dot(v, w) == dot_loop(v, w, 1, Len(v), Zero)
\* the product of the two norms
NormProduct(v, w) == FMul(FSqrt(Dot(v, v)), FSqrt(Dot(w, w)))

\* C8: cosineSimilarity of two vectors of length D returns exactly 0,
\* without dividing, when the product of the norms is zero, in particular
\* when either operand is the zero vector; otherwise it returns the dot
\* product divided by the product of the norms, unclamped.
C8_ZeroNormGivesZero ==
    (op = "cosineSimilarity" /\ LengthsValid) =>
        /\ outcome.kind = "ok"
        /\ IF \/ IsZero(NormProduct(args.vec1, args.vec2))
              \/ IsZeroVector(args.vec1)
              \/ IsZeroVector(args.vec2)
           THEN outcome.val = Zero /\ ~outcome.div
           ELSE /\ outcome.val = FDiv(Dot(args.vec1, args.vec2),
                                      NormProduct(args.vec1, args.vec2))
                /\ outcome.div

\* What cosineSimilarity does guarantee: the test is on the product of the
\* norms alone.
CosineTestsNormProduct ==
    (op = "cosineSimilarity" /\ LengthsValid) =>
        /\ outcome.kind = "ok"
        /\ IF IsZero(NormProduct(args.vec1, args.vec2))
           THEN outcome.val = Zero /\ ~outcome.div
           ELSE /\ outcome.val = FDiv(Dot(args.vec1, args.vec2),
                                      NormProduct(args.vec1, args.vec2))
                /\ outcome.div

Norm(v) == FSqrt(Dot(v, v))
Divided(v, n) == [i \in 1..Len(v) |-> FDiv(v[i], n)]

\* C9 as stated: normalizeVector leaves a vector of zero norm unchanged
\* without error, and replaces every component of a vector of non-zero norm
\* by the component divided by the norm of the original vector.
C9_NormalizeAsStated ==
    (op = "normalizeVector" /\ LengthsValid) =>
        /\ outcome.kind = "ok"
        /\ IF IsZero(Norm(args.vec1))
           THEN outcome.vec = args.vec1
           ELSE outcome.vec = Divided(args.vec1, Norm(args.vec1))

\* C9: normalizeVector leaves a vector whose norm is zero or NaN unchanged
\* without error, and replaces every component of a vector whose norm is
\* greater than zero by the component divided by the norm of the original
\* vector.
C9_Normalize ==
    (op = "normalizeVector" /\ LengthsValid) =>
        /\ outcome.kind = "ok"
        /\ IF IsZero(Norm(args.vec1)) \/ IsNaN(Norm(args.vec1))
           THEN outcome.vec = args.vec1
           ELSE outcome.vec = Divided(args.vec1, Norm(args.vec1))

\* a vector with a NaN component and a component that is not NaN has been
\* normalized
C9_Witness ==
    /\ op = "normalizeVector"
    /\ LengthsValid
    /\ IsNaN(Norm(args.vec1))
    /\ \E i \in 1..Len(args.vec1) : ~IsNaN(args.vec1[i])
    /\ outcome.kind = "ok"


\* row i (counted from 0) of the flattened set of the call made last
Row(i) == [j \in 1..dimensions |-> args.vec2[i * dimensions + j]]
\* the cosine score of row i against the query
Score(i) == cosine_similarity(args.vec1, Row(i)).val
Rows == 0..(args.count - 1)
NoNaNScore == \A i \in Rows : ~IsNaN(Score(i))
Min(a, b) == IF a < b THEN a ELSE b
\* index x comes before index y in the stable descending order of scores
Before(x, y) ==
    \/ FLess(Score(y), Score(x))
    \/ ~FLess(Score(x), Score(y)) /\ x < y

\* C4: batchCosineSimilarity on a query of length D and a set of length
\* count*D returns count scores, and score i is cosineSimilarity of the
\* query and the components [i*D, (i+1)*D) of the set.
C4_BatchIsRowwiseCosine ==
    (op = "batchCosineSimilarity" /\ LengthsValid) =>
        /\ outcome.kind = "ok"
        /\ Len(outcome.val) = args.count
        /\ \A i \in Rows :
              /\ cosine_similarity(args.vec1, Row(i)).kind = "ok"
              /\ outcome.val[i + 1] = Score(i)

\* a batch of at least two rows with different scores has been scored
C4_Witness ==
    /\ op = "batchCosineSimilarity"
    /\ LengthsValid
    /\ outcome.kind = "ok"
    /\ \E i, j \in Rows : FLess(Score(i), Score(j))

\* C2: with valid lengths and no NaN score, the indices findTopK returns
\* are in non-increasing score order, indices of equal score ascend, and
\* every index left out comes after every index returned: the result is a
\* prefix of the stable descending sort.
C2_SortedStable ==
    (op = "findTopK" /\ LengthsValid /\ NoNaNScore /\ outcome.kind = "ok") =>
        /\ \A i, j \in 1..Len(outcome.val) :
              i < j => Before(outcome.val[i], outcome.val[j])
        /\ \A x \in Rows :
              (\A i \in 1..Len(outcome.val) : outcome.val[i] # x) =>
                  \A i \in 1..Len(outcome.val) : Before(outcome.val[i], x)

\* a result in which two indices tie and a later row outranks an earlier one
C2_Witness ==
    /\ op = "findTopK"
    /\ LengthsValid
    /\ NoNaNScore
    /\ outcome.kind = "ok"
    /\ \E i, j \in 1..Len(outcome.val) :
          /\ i < j
          /\ ~FLess(Score(outcome.val[j]), Score(outcome.val[i]))
    /\ \E i, j \in 1..Len(outcome.val) :
          i < j /\ outcome.val[i] > outcome.val[j]

\* C3: a valid call of findTopK (valid lengths, no NaN score to compare)
\* returns exactly min(k, count) indices, each in [0, count) and none
\* twice: none when k = 0, all of them when k >= count.
C3_TopKLength ==
    (op = "findTopK" /\ LengthsValid /\ (NoNaNScore \/ args.count < 2)) =>
        /\ outcome.kind = "ok"
        /\ Len(outcome.val) = Min(args.k, args.count)
        /\ args.k = 0 => outcome.val = <<>>
        /\ args.k >= args.count =>
              {outcome.val[i] : i \in 1..Len(outcome.val)} = Rows
        /\ \A i \in 1..Len(outcome.val) : outcome.val[i] \in Rows
        /\ \A i, j \in 1..Len(outcome.val) :
              i # j => outcome.val[i] # outcome.val[j]

\* a call that cuts the ranking: 0 < k < count
C3_Witness ==
    /\ op = "findTopK"
    /\ LengthsValid
    /\ NoNaNScore
    /\ 0 < args.k
    /\ args.k < args.count
    /\ outcome.kind = "ok"

\* C10 as stated: whenever a row's score is NaN, findTopK aborts, for every
\* count >= 1 and every k.
C10_NaNAbortsAsStated ==
    (op = "findTopK" /\ LengthsValid /\ args.count >= 1 /\ ~NoNaNScore) =>
        outcome.kind = "panic"

\* C10: whenever a row's score is NaN and count >= 2, findTopK aborts on
\* the comparison and returns no indices, for every k; with count = 1 the
\* sort compares nothing and the call returns.
C10_NaNAborts ==
    (op = "findTopK" /\ LengthsValid /\ ~NoNaNScore) =>
        IF args.count >= 2
        THEN /\ outcome.kind = "panic"
             /\ outcome.msg = "called Option::unwrap() on a None value"
        ELSE outcome.kind = "ok"

\* findTopK was called with k = 0 and three rows, the last with a NaN score
C10_Witness ==
    /\ op = "findTopK"
    /\ LengthsValid
    /\ args.count >= 3
    /\ args.k = 0
    /\ IsNaN(Score(args.count - 1))
    /\ \A i \in Rows : i # args.count - 1 => ~IsNaN(Score(i))
    /\ outcome.kind = "panic"

\* the regions the host holds a handle to
Held == {h \in BagToSet(handles) : h.size > 0}

\* C6: while every free has named a handle the host holds, with the
\* element count of its allocation: allocate(n) yields n zeros; the live
\* regions are exactly those the host holds a handle to, each of the size
\* allocated, so that nothing is released but by the free that names it and
\* nothing is live once every handle is freed.
C6_BufferLifecycle ==
    ~broken =>
        /\ (memCall.op = "allocate" /\ memCall.size > 0) =>
              /\ memCall.ptr \in LiveAddrs
              /\ heap[memCall.ptr].data = Zeros(memCall.size)
        /\ (memCall.op = "allocate" /\ memCall.size = 0) =>
              memCall.ptr = Dangling
        /\ LiveAddrs = {h.ptr : h \in Held}
        /\ \A h \in Held :
              /\ CopiesIn(h, handles) = 1
              /\ Len(heap[h.ptr].data) = h.size
        /\ \A h, g \in Held : h.ptr = g.ptr => h = g
        /\ handles = EmptyBag => LiveAddrs = {}

\* every buffer has been freed, after a call of the engine on buffers
C6_Witness ==
    /\ ~broken
    /\ memCall.op = "free"
    /\ memCall.size > 0
    /\ handles = EmptyBag
    /\ op = "idle"

=============================================================================
